---- MODULE Spec2Model ----
(***************************************************************************)
(* grobot: an unattended grow-space controller.                            *)
(*                                                                         *)
(* Part I   the decision engine of src/lib.rs (Config: from_str, setup,    *)
(*          light_on, light_off, fan_on, fan_off).                         *)
(* Part II  the task-based controller of src/bin/controller.rs (main, the  *)
(*          interrupt handler, the light and the fan task, the bus).       *)
(*                                                                         *)
(* A float is an exact fraction <<numerator, denominator>> in lowest terms  *)
(* with a positive denominator, or NaN; rounding is left out.  Ordered      *)
(* comparisons are IEEE-754's: every one with NaN is false.  A              *)
(* DateTime<Local> is an instant counted in schedule slots:                 *)
(* date * DayLen + time of day.                                             *)
(***************************************************************************)
EXTENDS Integers, Sequences, FiniteSets, TLC

\* ---------------------------------------------------------------- bounds
\* Largest time of day (a day has the slots 0..MaxTod).
MaxTod == 3
\* Most schedule events (light and fan together) in a configuration file
\* whose Config is queried in Part I.
MaxEvents == 2
\* Most events of a schedule in a file given to the boundary queries of Part I.
MaxWindowEvents == 4

\* ------------------------------------------------------- values and time
\* An f32 is <<m, e>>, standing for m * 2^e with m odd and |m| < 2^24, zero
\* being <<0, 0>>: every finite f32 has exactly one such form, so equal
\* floats are equal tuples.  Every operation rounds its exact result to 24
\* significant bits, ties to even, as IEEE 754 binary32 does.  The infinities
\* are <<1, 1024>> and <<-1, 1024>>, an exponent no finite f32 has.  Overflow,
\* subnormals and the sign of zero are left out: no finite value of the model
\* comes near the ends of the exponent range.  The f64 of FanPower is held the same way, its
\* values (whole percentages and their hundredths 1.0 and 0.75) being exact
\* in both widths.

\* f32::NAN (0.0 / 0.0)
NaN == <<0, 1>>

\* f32::INFINITY
Inf == <<1, 1024>>

Abs(x) == IF x < 0 THEN -x ELSE x

\* The number of bits of n >= 0.
RECURSIVE BitLen(_)
BitLen(n) ==
    IF n >= 65536 THEN 16 + BitLen(n \div 65536)
    ELSE IF n >= 256 THEN 8 + BitLen(n \div 256)
    ELSE IF n >= 16 THEN 4 + BitLen(n \div 16)
    ELSE IF n >= 4 THEN 2 + BitLen(n \div 4)
    ELSE IF n >= 2 THEN 2
    ELSE n

\* m * 2^e with the trailing zero bits of m moved into the exponent.
RECURSIVE Canon(_, _)
Canon(m, e) ==
    IF m = 0 THEN <<0, 0>>
    ELSE IF m % 256 = 0 THEN Canon(m \div 256, e + 8)
    ELSE IF m % 2 = 0 THEN Canon(m \div 2, e + 1)
    ELSE <<m, e>>

\* The float of a whole number of at most 24 significant bits.
Float(v) == Canon(v, 0)

is_nan(a) == a = NaN

\* f32::is_infinite
is_inf(a) == a[2] = Inf[2]

Sign(a) == IF a[1] > 0 THEN 1 ELSE IF a[1] < 0 THEN -1 ELSE 0

\* One more than the exponent of the leading bit of a non-zero float.
Top(a) == BitLen(Abs(a[1])) + a[2]

\* A whole number below 2^30 (a significand is below 2^24): such numbers are
\* compared and added as integers.
Small(a) == a[2] >= 0 /\ a[2] <= 6

\* -1, 0 or 1 as a < b, a = b or a > b, for floats that are not NaN; an
\* infinity is ordered by its exponent like any other value.
Cmp(a, b) ==
    IF a[2] = b[2] THEN (IF a[1] < b[1] THEN -1 ELSE IF a[1] > b[1] THEN 1 ELSE 0)
    ELSE IF Small(a) /\ Small(b)
    THEN (IF a[1] * 2 ^ a[2] < b[1] * 2 ^ b[2] THEN -1 ELSE 1)
    ELSE IF Sign(a) # Sign(b) THEN (IF Sign(a) < Sign(b) THEN -1 ELSE 1)
    ELSE IF Top(a) # Top(b) THEN (IF Top(a) < Top(b) THEN -Sign(a) ELSE Sign(a))
    ELSE LET lo == IF a[2] < b[2] THEN a[2] ELSE b[2]
         IN  IF a[1] * 2 ^ (a[2] - lo) < b[1] * 2 ^ (b[2] - lo) THEN -1 ELSE 1

\* a > b, a < b, a >= b, a <= b on floats: false when either is NaN
FloatGt(a, b) == ~is_nan(a) /\ ~is_nan(b) /\ Cmp(a, b) = 1
FloatLt(a, b) == ~is_nan(a) /\ ~is_nan(b) /\ Cmp(a, b) = -1
FloatGe(a, b) == ~is_nan(a) /\ ~is_nan(b) /\ Cmp(a, b) >= 0
FloatLe(a, b) == ~is_nan(a) /\ ~is_nan(b) /\ Cmp(a, b) <= 0

\* The float nearest to mag * 2^e, or to a value just above it when sticky,
\* ties to the even significand, for mag >= 0.  A sticky mag has at least 26
\* bits.
RoundMag(mag, e, sticky) ==
    LET bl == BitLen(mag)
    IN  IF bl <= 24 THEN Canon(mag, e)
        ELSE LET sh == bl - 24
                 q == mag \div 2 ^ sh
                 r == mag % 2 ^ sh
                 half == 2 ^ (sh - 1)
                 up == r > half \/ (r = half /\ (sticky \/ q % 2 = 1))
             IN  Canon(IF up THEN q + 1 ELSE q, e + sh)

\* A magnitude with the sign of s.
Signed(s, mag) == IF s < 0 THEN <<-mag[1], mag[2]>> ELSE mag

Neg(a) == IF is_nan(a) THEN a ELSE <<-a[1], a[2]>>

\* a + b: both operands are put on the grid of 2^g, 28 bits below the leading
\* bit of the larger; the bits the smaller one loses below the grid are
\* remembered as sticky.  inf + (-inf) is NaN.
FloatAdd(a, b) ==
    IF is_nan(a) \/ is_nan(b) THEN NaN
    ELSE IF a[1] = 0 THEN b
    ELSE IF b[1] = 0 THEN a
    ELSE IF Small(a) /\ Small(b)
    THEN LET s == a[1] * 2 ^ a[2] + b[1] * 2 ^ b[2]
         IN  Signed(s, RoundMag(Abs(s), 0, FALSE))
    ELSE IF is_inf(a) \/ is_inf(b)
    THEN (IF is_inf(a) /\ is_inf(b) /\ a # b THEN NaN ELSE IF is_inf(a) THEN a ELSE b)
    ELSE LET g == (IF Top(a) > Top(b) THEN Top(a) ELSE Top(b)) - 28
             OnGrid(x) == IF x[2] >= g THEN x[1] * 2 ^ (x[2] - g)
                          ELSE IF g - x[2] > 30 THEN 0
                          ELSE Sign(x) * (Abs(x[1]) \div 2 ^ (g - x[2]))
             s == OnGrid(a) + OnGrid(b)
             lost == IF a[2] < g THEN Sign(a) ELSE IF b[2] < g THEN Sign(b) ELSE 0
         IN  IF lost = 0 THEN Signed(s, RoundMag(Abs(s), g, FALSE))
             ELSE IF (s > 0) = (lost > 0) THEN Signed(s, RoundMag(Abs(s), g, TRUE))
             ELSE Signed(s, RoundMag(Abs(s) - 1, g, TRUE))

FloatSub(a, b) == FloatAdd(a, Neg(b))

\* a * b: the 48-bit product of the significands from 12-bit halves, as
\* hi * 2^24 + lo, cut to 28 bits with the rest sticky.  inf * 0.0 is NaN.
FloatMul(a, b) ==
    IF is_nan(a) \/ is_nan(b) THEN NaN
    ELSE IF a[1] = 0 \/ b[1] = 0 THEN (IF is_inf(a) \/ is_inf(b) THEN NaN ELSE <<0, 0>>)
    ELSE IF is_inf(a) \/ is_inf(b) THEN Signed(Sign(a) * Sign(b), Inf)
    ELSE IF Abs(a[1]) < 4096 /\ Abs(b[1]) < 4096 THEN <<a[1] * b[1], a[2] + b[2]>>
    ELSE LET x == Abs(a[1])
             y == Abs(b[1])
             mid == (x \div 4096) * (y % 4096) + (x % 4096) * (y \div 4096)
             low == (mid % 4096) * 4096 + (x % 4096) * (y % 4096)
             hi == (x \div 4096) * (y \div 4096) + mid \div 4096 + low \div 16777216
             lo == low % 16777216
             k == IF BitLen(hi) > 4 THEN BitLen(hi) - 4 ELSE 0
         IN  Signed(Sign(a) * Sign(b),
                    RoundMag(hi * 2 ^ (24 - k) + lo \div 2 ^ k, a[2] + b[2] + k,
                             lo % 2 ^ k # 0))

\* t more bits of the quotient q with remainder r of a division by d < 2^24,
\* up to six bits at a time.
RECURSIVE LongDiv(_, _, _, _)
LongDiv(q, r, d, t) ==
    IF t = 0 THEN <<q, r>>
    ELSE LET k == IF t < 6 THEN t ELSE 6
         IN  LongDiv(q * 2 ^ k + (r * 2 ^ k) \div d, (r * 2 ^ k) % d, d, t - k)

\* a / b: 27 or 28 bits of the quotient of the significands, a remainder
\* being sticky.  0.0 / 0.0 and inf / inf are NaN, and a non-zero number
\* over 0.0 is an infinity.
FloatDiv(a, b) ==
    IF is_nan(a) \/ is_nan(b) THEN NaN
    ELSE IF b[1] = 0 THEN (IF a[1] = 0 THEN NaN ELSE Signed(Sign(a), Inf))
    ELSE IF is_inf(a) THEN (IF is_inf(b) THEN NaN ELSE Signed(Sign(a) * Sign(b), Inf))
    ELSE IF a[1] = 0 \/ is_inf(b) THEN <<0, 0>>
    ELSE IF Abs(a[1]) % Abs(b[1]) = 0
    THEN <<Sign(b) * (a[1] \div Abs(b[1])), a[2] - b[2]>>
    ELSE LET up == 24 - BitLen(Abs(a[1]))
             n == Abs(a[1]) * 2 ^ up
             d == Abs(b[1])
             t == 3 + BitLen(d)
             qr == LongDiv(n \div d, n % d, d, t)
         IN  Signed(Sign(a) * Sign(b),
                    RoundMag(qr[1], a[2] - up - b[2] - t, qr[2] # 0))

\* The square root digit by digit: the radicand m is taken two bits at a time
\* from its leading pair, then zero pairs, until the root has 27 bits.
RECURSIVE SqrtDigits(_, _, _, _, _)
SqrtDigits(root, rem, m, pairs, i) ==
    IF i > 27 THEN <<root, rem>>
    ELSE IF i > pairs /\ rem = 0 THEN <<root * 2 ^ (28 - i), 0>>
    ELSE LET pair == IF i <= pairs THEN (m \div 4 ^ (pairs - i)) % 4 ELSE 0
             r == 4 * rem + pair
             trial == 4 * root + 1
         IN  IF r >= trial THEN SqrtDigits(2 * root + 1, r - trial, m, pairs, i + 1)
             ELSE SqrtDigits(2 * root, r, m, pairs, i + 1)

\* f32::sqrt: NaN for a negative number
FloatSqrt(a) ==
    IF is_nan(a) \/ a[1] < 0 THEN NaN
    ELSE IF a[1] = 0 \/ is_inf(a) THEN a
    ELSE LET odd == a[2] % 2 = 1
             m == IF odd THEN 2 * a[1] ELSE a[1]
             e == IF odd THEN a[2] - 1 ELSE a[2]
             pairs == (BitLen(m) + 1) \div 2
             rr == SqrtDigits(0, 0, m, pairs, 1)
         IN  RoundMag(rr[1], e \div 2 - (27 - pairs), rr[2] # 0)

\* iter().sum::<f32>(): a fold from 0.0, first element first
RECURSIVE SumFrom(_, _, _)
SumFrom(acc, xs, i) ==
    IF i > Len(xs) THEN acc ELSE SumFrom(FloatAdd(acc, xs[i]), xs, i + 1)
FloatSum(xs) == SumFrom(<<0, 0>>, xs, 1)

\* Option<T>
None == <<>>
Some(x) == <<x>>

DayLen == MaxTod + 1
Tods == 0 .. MaxTod
\* DateTime<Local>::time(): the time of day of an instant
time_of_day(dt) == dt % DayLen
\* Event::parse_time: "%H:%M" on the date the file is parsed (date 0)
parse_time(tod) == 0 * DayLen + tod
\* Local::now() at a query: any time of day, on the date the file was parsed
\* or on the next one.
QueryTimes == {d * DayLen + t : d \in {0, 1}, t \in Tods}

Action == {"On", "Off"}
Events == [time : {parse_time(t) : t \in Tods}, action : Action]

RECURSIVE SeqsUpTo(_, _)
SeqsUpTo(S, n) ==
    IF n = 0 THEN {<<>>}
    ELSE LET shorter == SeqsUpTo(S, n - 1)
         IN  shorter \cup {Append(s, e) : s \in {x \in shorter : Len(x) = n - 1}, e \in S}

\* ------------------------------------------------------------- FanPower
CONVERSION_FACTOR == 100

\* FanPower::try_from: Err outside 0..=100 (NaN is outside), else the duty
\* cycle value / CONVERSION_FACTOR.
try_from(value) ==
    IF FloatGe(value, Float(0)) /\ FloatLe(value, Float(100))
    THEN [ok |-> TRUE, power |-> FloatDiv(value, Float(CONVERSION_FACTOR))]
    ELSE [ok |-> FALSE, power |-> NaN]

\* ------------------------------------------------------------ the Config
NoConfig == [none |-> TRUE]

\* toml::from_str::<Config>: FanPower::parse_fan_power rejects the file when
\* try_from fails; events and thresholds are taken as they are written.
from_str(f) ==
    LET p == try_from(f.fan.power)
    IN  IF p.ok
        THEN [ok |-> TRUE,
              config |-> [fan |-> [power |-> p.power, schedule |-> f.fan.schedule],
                          light |-> [schedule |-> f.light.schedule],
                          thresholds |-> f.thresholds]]
        ELSE [ok |-> FALSE, config |-> NoConfig]

\* Vec::sort_by(|a, b| a.time.cmp(&b.time)): a stable sort on the instant.
RECURSIVE InsertByTime(_, _)
InsertByTime(sorted, e) ==
    IF sorted = <<>> THEN <<e>>
    ELSE IF sorted[Len(sorted)].time <= e.time THEN Append(sorted, e)
    ELSE Append(InsertByTime(SubSeq(sorted, 1, Len(sorted) - 1), e), sorted[Len(sorted)])

RECURSIVE sort_by_time(_)
sort_by_time(s) ==
    IF s = <<>> THEN <<>>
    ELSE InsertByTime(sort_by_time(SubSeq(s, 1, Len(s) - 1)), s[Len(s)])

\* The check setup makes of one sorted schedule: first() exists and is On.
first_is_on(schedule) == schedule # <<>> /\ schedule[1].action = "On"

\* The two checks made on the schedules as they are written, the sort after.
setup_checks_unsorted(c) ==
    [ok |-> first_is_on(c.light.schedule) /\ first_is_on(c.fan.schedule),
     config |-> [c EXCEPT !.light.schedule = sort_by_time(c.light.schedule),
                          !.fan.schedule = sort_by_time(c.fan.schedule)]]

\* Config::setup: sorts both schedules in place, then checks the light
\* schedule, then the fan schedule.  The sorted config is left behind also
\* when an error is returned.
setup(c) ==
    LET sorted == [c EXCEPT !.light.schedule = sort_by_time(c.light.schedule),
                            !.fan.schedule = sort_by_time(c.fan.schedule)]
    IN  [ok |-> first_is_on(sorted.light.schedule) /\ first_is_on(sorted.fan.schedule),
         config |-> sorted]

\* Config::from_file: from_str, then setup; `?` on both.
from_file(f) ==
    LET parsed == from_str(f)
    IN  IF ~parsed.ok THEN [ok |-> FALSE, config |-> NoConfig]
        ELSE LET s == setup(parsed.config)
             IN  IF s.ok THEN s ELSE [ok |-> FALSE, config |-> NoConfig]

\* ---------------------------------------------------- decision functions
\* The outcome of a decision function: it returns true or false, or panics.
Outcome == {"true", "false", "panic"}
Returned(b) == IF b THEN "true" ELSE "false"

\* The window closed at its end: off.time.time() >= time.time().
RECURSIVE chunks_any_closed(_, _, _)
chunks_any_closed(schedule, i, time) ==
    IF i > Len(schedule) THEN "false"
    ELSE IF i + 1 > Len(schedule) THEN "panic"
    ELSE IF /\ time_of_day(schedule[i].time) <= time_of_day(time)
            /\ time_of_day(schedule[i + 1].time) >= time_of_day(time)
         THEN "true"
         ELSE chunks_any_closed(schedule, i + 2, time)

\* schedule.chunks(2).any(|pair| { on = &pair[0]; off = &pair[1]; ... }):
\* chunks are visited in order until one matches; a last chunk of one event
\* panics at pair[1] when it is visited.  i is the index of the chunk's
\* first event.
RECURSIVE chunks_any(_, _, _)
chunks_any(schedule, i, time) ==
    IF i > Len(schedule) THEN "false"
    ELSE IF i + 1 > Len(schedule) THEN "panic"
    ELSE IF /\ time_of_day(schedule[i].time) <= time_of_day(time)
            /\ time_of_day(schedule[i + 1].time) > time_of_day(time)
         THEN "true"
         ELSE chunks_any(schedule, i + 2, time)

\* Config::light_on
light_on(c, time, temp, humidity) ==
    LET light_on_schedule == chunks_any(c.light.schedule, 1, time)
        light_on_environment ==
            \/ FloatGt(humidity, c.thresholds.max_humidity)
            \/ FloatLt(temp, c.thresholds.min_temp)
        light_off_environment == FloatGt(temp, c.thresholds.max_temp)
    IN  IF light_on_schedule = "panic" THEN "panic"
        ELSE Returned((light_on_schedule = "true" \/ light_on_environment)
                      /\ ~light_off_environment)

\* `!` applied to the outcome of a call: a panic propagates.
Negated(o) == IF o = "panic" THEN "panic" ELSE Returned(o = "false")

\* An off-rule written on its own (the schedule alone) instead of the negation.
light_off_schedule_only(c, time, temp, humidity) ==
    Negated(chunks_any(c.light.schedule, 1, time))

\* Config::light_off
light_off(c, time, temp, humidity) == Negated(light_on(c, time, temp, humidity))

\* Config::fan_on
fan_on(c, time, temp, humidity) ==
    LET fan_on_schedule == chunks_any(c.fan.schedule, 1, time)
        fan_on_environment ==
            \/ FloatGt(humidity, c.thresholds.max_humidity)
            \/ FloatGt(temp, c.thresholds.max_temp)
        fan_off_environment ==
            \/ FloatLt(humidity, c.thresholds.min_humidity)
            \/ FloatLt(temp, c.thresholds.min_temp)
    IN  IF fan_on_schedule = "panic" THEN "panic"
        ELSE Returned((fan_on_schedule = "true" \/ fan_on_environment)
                      /\ ~fan_off_environment)

\* Config::fan_off
fan_off(c, time, temp, humidity) == Negated(fan_on(c, time, temp, humidity))

\* ------------------------------------------------------------ the inputs
\* Temperatures and humidities handed to the decision functions.
FloatVals == {Float(v) : v \in 0 .. 4} \cup {NaN}

\* [thresholds] of a file: an ordinary band and an inverted one.
ThresholdSets ==
    { [min_temp |-> Float(1), min_humidity |-> Float(1), max_temp |-> Float(3), max_humidity |-> Float(3)],
      [min_temp |-> Float(3), min_humidity |-> Float(3), max_temp |-> Float(1), max_humidity |-> Float(1)] }

\* The (light, fan) schedules of a file with at most n events in all.
SchedulePairs(n) ==
    LET S == SeqsUpTo(Events, n)
    IN  UNION { {<<l, f>> : f \in {x \in S : Len(x) <= n - Len(l)}} : l \in S }

\* The files with the given schedules, fan powers and thresholds.
Files(pairs, powers, thresholds) ==
    { [fan |-> [power |-> pw, schedule |-> p[2]],
       light |-> [schedule |-> p[1]],
       thresholds |-> th] : p \in pairs, pw \in powers, th \in thresholds }

NoQuery == [none |-> TRUE]

VARIABLES
    file,       \* the configuration file as deserialised (Part I and II)
    config,     \* the Config the caller holds, NoConfig before it is built
    loadState,  \* "start" | "parsed" | "ready" | "error"
    query,      \* the arguments of the last decision query, or NoQuery
    result,     \* the outcomes of light_on, light_off, fan_on, fan_off on query
    main,       \* controller main: [pc, i, cycle, late, read]; late counts the
                \* waits main sat through with the interrupt still pending,
                \* read is what the dht22_read of this sample gave
    environment,\* main's Environment: the readings in the ring, oldest first
    stop,       \* the oneshot of the interrupt handler
    bus,        \* every Message sent on the channel, in order
    light,      \* the light task: [pc, next, config, last_time, last_env, out]
    fan,        \* the fan task:   [pc, next, config, last_time, last_env, out]
                \* (in the thread-based controller main, light and fan are
                \* [pc, i, cycle, got], [pc, got, out] and [pc, got, out])
    capacity,   \* the capacity the Environment was built with
    offered,    \* every reading passed to add_reading, in order
    estimate    \* what temp() and humidity() last returned, or NoEstimate

decideVars == <<query, result>>
ctlVars == <<main, environment, stop, bus, light, fan>>
aggVars == <<capacity, offered, estimate>>
vars == <<file, config, loadState, query, result,
          main, environment, stop, bus, light, fan,
          capacity, offered, estimate>>

\* Environment::DEFAULT_INITIAL_READINGS
DEFAULT_INITIAL_READINGS == 8

\* The ring as Environment::default() builds it, and before any estimate.
NoEstimate == [none |-> TRUE]
DefaultAggregator ==
    /\ capacity = DEFAULT_INITIAL_READINGS
    /\ offered = <<>>
    /\ estimate = NoEstimate

\* A task before it is spawned: no receiver yet, the output not driven.  The
\* light's out is "unset", "off" (pin high) or "on" (pin low); the fan's is
\* None or Some(duty cycle).
Unspawned(undriven) ==
    [pc |-> "unspawned", next |-> 0, config |-> NoConfig,
     last_time |-> None, last_env |-> None, out |-> undriven]

\* The controller before main has run.
NotStarted ==
    /\ main = [pc |-> "load", i |-> 0, cycle |-> 0, late |-> 0, read |-> "none"]
    /\ environment = <<>>
    /\ stop = "idle"
    /\ bus = <<>>
    /\ light = Unspawned("unset")
    /\ fan = Unspawned(None)

\* =========================================================== Part I
\* A caller that builds a Config as tests/test_config.rs does (from_str,
\* with or without setup) and queries the four decision functions.

DecideFiles == Files(SchedulePairs(MaxEvents), {Float(-1), Float(100), Float(101)}, ThresholdSets)

InitDecide ==
    /\ DefaultAggregator
    /\ file \in DecideFiles
    /\ config = NoConfig
    /\ loadState = "start"
    /\ query = NoQuery
    /\ result = NoQuery
    /\ NotStarted

\* let config: Config = from_str(CONFIG)?
Parse ==
    /\ loadState = "start"
    /\ LET r == from_str(file)
       IN  /\ config' = r.config
           /\ loadState' = IF r.ok THEN "parsed" ELSE "error"
    /\ UNCHANGED <<aggVars, file, query, result, ctlVars>>

\* config.setup()?  (before the query: result is about the Config in hand)
Setup ==
    /\ loadState = "parsed"
    /\ query = NoQuery
    /\ LET r == setup(config)
       IN  /\ config' = r.config
           /\ loadState' = IF r.ok THEN "ready" ELSE "error"
    /\ UNCHANGED <<aggVars, file, query, result, ctlVars>>

\* The four decision functions called on one time and environment.
Evaluate(t, temp, humidity) ==
    /\ query' = [time |-> t, temp |-> temp, humidity |-> humidity]
    /\ result' = [light_on |-> light_on(config, t, temp, humidity),
                  light_off |-> light_off(config, t, temp, humidity),
                  fan_on |-> fan_on(config, t, temp, humidity),
                  fan_off |-> fan_off(config, t, temp, humidity)]

\* The functions leave the Config as it is, so one query per behaviour reaches
\* every (Config, time, environment).
Query ==
    /\ loadState \in {"parsed", "ready"}
    /\ query = NoQuery
    /\ \E t \in QueryTimes, temp \in FloatVals, humidity \in FloatVals :
           Evaluate(t, temp, humidity)
    /\ UNCHANGED <<aggVars, file, config, loadState, ctlVars>>

NextDecide == Parse \/ Setup \/ Query

SpecDecide == InitDecide /\ [][NextDecide]_vars

Asked == query # NoQuery

\* A caller that loads files giving both actuators the same schedule and
\* queries at the nominal environment of tests/test_config.rs (NOMINAL_TEMP,
\* NOMINAL_HUMIDITY: inside the threshold band).
NominalThresholds ==
    [min_temp |-> Float(1), min_humidity |-> Float(1), max_temp |-> Float(3), max_humidity |-> Float(3)]
NOMINAL_TEMP == Float(2)
NOMINAL_HUMIDITY == Float(2)

WindowFiles ==
    Files({<<sch, sch>> : sch \in SeqsUpTo(Events, MaxWindowEvents)},
          {Float(100)}, {NominalThresholds})

InitWindows ==
    /\ DefaultAggregator
    /\ file \in WindowFiles
    /\ config = NoConfig
    /\ loadState = "start"
    /\ query = NoQuery
    /\ result = NoQuery
    /\ NotStarted

QueryNominal ==
    /\ loadState \in {"parsed", "ready"}
    /\ query = NoQuery
    /\ \E t \in QueryTimes : Evaluate(t, NOMINAL_TEMP, NOMINAL_HUMIDITY)
    /\ UNCHANGED <<aggVars, file, config, loadState, ctlVars>>

NextWindows == Parse \/ Setup \/ QueryNominal

SpecWindows == InitWindows /\ [][NextWindows]_vars

\* =========================================================== Part II
\* ---------------------------------------------------------- Environment
\* A ring that keeps what it holds once it is full.
push_keeps_oldest(readings, cap, reading) ==
    IF Len(readings) = cap THEN readings ELSE Append(readings, reading)

\* RingBufferWrite::push on a ring of capacity cap, oldest reading first: a
\* full ring drops its oldest reading.
push(readings, cap, reading) ==
    IF Len(readings) = cap
    THEN Append(Tail(readings), reading)
    ELSE Append(readings, reading)

\* add_reading without the upper bound on the humidity.
add_reading_unbounded(readings, cap, reading) ==
    IF /\ FloatGe(reading.humidity, Float(0))
       /\ ~is_nan(reading.temperature)
       /\ ~is_nan(reading.humidity)
    THEN push(readings, cap, reading)
    ELSE readings

\* Environment::add_reading: a reading with humidity in 0..=100 and no NaN is
\* pushed, the oldest being overwritten when the ring is full; any other
\* reading is dropped.
add_reading(readings, cap, reading) ==
    IF /\ FloatGe(reading.humidity, Float(0))
       /\ FloatLe(reading.humidity, Float(100))
       /\ ~is_nan(reading.temperature)
       /\ ~is_nan(reading.humidity)
    THEN push(readings, cap, reading)
    ELSE readings

\* 9.0 / 5.0
NineFifths == FloatDiv(Float(9), Float(5))

\* Environment::ctof
ctof(c) == FloatAdd(FloatMul(c, NineFifths), Float(32))

RECURSIVE SelectSeqBy(_, _, _, _)
\* iter().filter(|r| (mean - std_dev) <= r && r <= (mean + std_dev)): the
\* values within one standard deviation of the mean; with a NaN mean or
\* std_dev both comparisons are false.
SelectSeqBy(xs, i, mean, std_dev) ==
    IF i > Len(xs) THEN <<>>
    ELSE LET rest == SelectSeqBy(xs, i + 1, mean, std_dev)
         IN  IF /\ FloatLe(FloatSub(mean, std_dev), xs[i])
                /\ FloatLe(xs[i], FloatAdd(mean, std_dev))
             THEN <<xs[i]>> \o rest ELSE rest

\* The statistics of Environment::temp and Environment::humidity on the
\* values of one field: mean, variance with the n - 1 denominator, standard
\* deviation, the good samples, and their mean.
mean_of(xs) == FloatDiv(FloatSum(xs), Float(Len(xs)))
sum_dev_sq(xs) ==
    LET mean == mean_of(xs)
    IN  FloatSum([i \in 1 .. Len(xs) |->
                     FloatMul(FloatSub(xs[i], mean), FloatSub(xs[i], mean))])
variance_of(xs) == FloatDiv(sum_dev_sq(xs), FloatSub(Float(Len(xs)), Float(1)))
std_dev_of(xs) == FloatSqrt(variance_of(xs))
good_samples(xs) == SelectSeqBy(xs, 1, mean_of(xs), std_dev_of(xs))
cleaned(xs) == LET good == good_samples(xs) IN FloatDiv(FloatSum(good), Float(Len(good)))

\* The cleaned temperature handed out as it is stored, in Celsius.
temp_celsius(readings) ==
    cleaned([i \in 1 .. Len(readings) |-> readings[i].temperature])

\* Environment::temp (Fahrenheit)
temp(readings) == ctof(cleaned([i \in 1 .. Len(readings) |-> readings[i].temperature]))

\* Environment::humidity
humidity(readings) == cleaned([i \in 1 .. Len(readings) |-> readings[i].humidity])

\* ----------------------------------------------------------- controller
\* Bounds of the controller's runs.
\* Steady-state cycles main completes (it sleeps for good after the last).
MaxCycles == 1

INITIAL_SENSOR_READINGS == 8
SENSOR_READINGS == 3
BUS_CAPACITY == 16

\* What dht22_read returns: an error, or one of these readings (Celsius, %):
\* a good one and one add_reading drops.
SensorReadings ==
    { [temperature |-> Float(25), humidity |-> Float(50)],
      [temperature |-> Float(25), humidity |-> Float(101)] }
SensorOutcomes == {None} \cup {Some(r) : r \in SensorReadings}

\* The match of dht22_read's result against Ok(reading).
matched(outcome) == IF outcome = None THEN "err" ELSE "ok"

\* A failed read stored as a reading of zeros.
read_sensor_storing_errors(readings, outcome) ==
    add_reading(readings, DEFAULT_INITIAL_READINGS,
                IF outcome = None THEN [temperature |-> Float(0), humidity |-> Float(0)]
                ELSE outcome[1])

\* if let Ok(reading) = dht22_read(SENSOR_PIN) { environment.add_reading(reading) }
read_sensor(readings, outcome) ==
    IF outcome = None THEN readings
    ELSE add_reading(readings, DEFAULT_INITIAL_READINGS, outcome[1])

\* Local::now() as main reads it: a time of day inside and one outside the
\* window of WindowSchedule, on the day after the file was parsed.
NowTimes == {DayLen + 0, DayLen + 1}

\* The files main is started on: light schedules that setup rejects (empty,
\* Off first as written, Off first once sorted) and one it accepts, fan
\* schedules likewise, fan powers below, inside and above 0..=100.
On(t) == [time |-> parse_time(t), action |-> "On"]
Off(t) == [time |-> parse_time(t), action |-> "Off"]
WindowSchedule == <<On(0), Off(1)>>
ControllerSchedules == { <<>>, <<Off(0), On(1)>>, <<On(1), Off(0)>>, WindowSchedule }
ControllerThresholds ==
    [min_temp |-> Float(62), min_humidity |-> Float(40),
     max_temp |-> Float(82), max_humidity |-> Float(80)]
ControllerFiles ==
    Files(ControllerSchedules \X ControllerSchedules,
          {Float(-1), Float(75), Float(101)}, {ControllerThresholds})

\* Message
MsgSetup(c) == [type |-> "Setup", config |-> c]
MsgTime(t) == [type |-> "Time", time |-> t]
MsgEnvironment(t, h) == [type |-> "Environment", env |-> <<t, h>>]
MsgExit == [type |-> "Exit"]

Init ==
    /\ DefaultAggregator
    /\ file \in ControllerFiles
    /\ config = NoConfig
    /\ loadState = "start"
    /\ query = NoQuery
    /\ result = NoQuery
    /\ NotStarted

\* main has returned (Ok or Err) and the runtime is being dropped, or is gone.
MainReturned == main.pc \in {"done", "failed", "exited"}

\* tx.send(msg)?: _rx keeps a receiver alive, so send never fails.
send(msg) == bus' = Append(bus, msg)

\* sleep(..).await in main: the wait is not raced against stop_rx, so an
\* interrupt that has arrived stays pending for all of it.  Two such waits
\* are as many as are told apart.
slept(m) ==
    IF stop = "sent" /\ m.late < 2 THEN [m EXCEPT !.late = m.late + 1] ELSE m

\* controller.rs:207  Config::from_file(&args.config_file).await?
MainLoad ==
    /\ main.pc = "load"
    /\ LET r == from_file(file)
       IN  /\ config' = r.config
           /\ loadState' = IF r.ok THEN "ready" ELSE "error"
           /\ main' = [main EXCEPT !.pc = IF r.ok THEN "spawn" ELSE "failed"]
    /\ UNCHANGED <<aggVars, file, decideVars, environment, stop, bus, light, fan>>

\* controller.rs:219-232  the channel, the two subscriptions, the oneshot,
\* and the three spawns.
MainSpawn ==
    /\ main.pc = "spawn"
    /\ main' = [main EXCEPT !.pc = "send_setup"]
    /\ stop' = "armed"
    /\ light' = [light EXCEPT !.pc = "spawned", !.next = Len(bus)]
    /\ fan' = [fan EXCEPT !.pc = "spawned", !.next = Len(bus)]
    /\ UNCHANGED <<aggVars, file, config, loadState, decideVars, environment, bus>>

\* main going on to the warm-up readings with no Setup sent.
MainSkipSetup ==
    /\ main.pc = "send_setup"
    /\ environment' = <<>>
    /\ main' = [main EXCEPT !.pc = "init_read", !.i = 0]
    /\ UNCHANGED <<aggVars, file, config, loadState, decideVars, stop, bus, light, fan>>

\* controller.rs:234-238  tx.send(Message::Setup(config))?; Environment::default()
MainSendSetup ==
    /\ main.pc = "send_setup"
    /\ send(MsgSetup(config))
    /\ environment' = <<>>
    /\ main' = [main EXCEPT !.pc = "init_read", !.i = 0]
    /\ UNCHANGED <<aggVars, file, config, loadState, decideVars, stop, light, fan>>

\* controller.rs:240-245  one warm-up reading and its sleep
MainInitRead ==
    /\ main.pc = "init_read"
    /\ \E o \in SensorOutcomes :
           /\ environment' = read_sensor(environment, o)
           /\ main' = slept([main EXCEPT !.pc = "init_check", !.read = matched(o)])
    /\ UNCHANGED <<aggVars, file, config, loadState, decideVars, stop, bus, light, fan>>

\* controller.rs:247-252  stop_rx.try_recv() of the warm-up loop: on Exit it
\* sends Exit and breaks out of the for loop, into the steady loop.
MainInitCheck ==
    /\ main.pc = "init_check"
    /\ IF stop = "sent"
       THEN /\ stop' = "taken"
            /\ send(MsgExit)
            /\ main' = [main EXCEPT !.pc = "read", !.i = 0, !.late = 0, !.read = "none"]
       ELSE /\ UNCHANGED <<stop, bus>>
            /\ main' = IF main.i + 1 = INITIAL_SENSOR_READINGS
                       THEN [main EXCEPT !.pc = "read", !.i = 0, !.read = "none"]
                       ELSE [main EXCEPT !.pc = "init_read", !.i = main.i + 1,
                                         !.read = "none"]
    /\ UNCHANGED <<aggVars, file, config, loadState, decideVars, environment, light, fan>>

\* controller.rs:257-263  one reading of a cycle and its sleep
MainRead ==
    /\ main.pc = "read"
    /\ \E o \in SensorOutcomes :
           /\ environment' = read_sensor(environment, o)
           /\ main' = slept(IF main.i + 1 = SENSOR_READINGS
                            THEN [main EXCEPT !.pc = "status", !.i = 0, !.read = matched(o)]
                            ELSE [main EXCEPT !.i = main.i + 1, !.read = matched(o)])
    /\ UNCHANGED <<aggVars, file, config, loadState, decideVars, stop, bus, light, fan>>

\* controller.rs:265-269  environment.json()? and sock.send_to(..).await?:
\* the status datagram goes out, or main returns the error.
MainStatus ==
    /\ main.pc = "status"
    /\ \E sent \in BOOLEAN :
           main' = [main EXCEPT !.pc = IF sent THEN "send_env" ELSE "failed",
                                !.read = "none"]
    /\ UNCHANGED <<aggVars, file, config, loadState, decideVars, environment, stop, bus, light, fan>>

\* controller.rs:271-274
MainSendEnvironment ==
    /\ main.pc = "send_env"
    /\ send(MsgEnvironment(temp(environment), humidity(environment)))
    /\ main' = [main EXCEPT !.pc = "check1"]
    /\ UNCHANGED <<aggVars, file, config, loadState, decideVars, environment, stop, light, fan>>

\* controller.rs:276-280 and 284-288  the two stop_rx.try_recv() of a cycle
MainCheck ==
    /\ main.pc \in {"check1", "check2"}
    /\ IF stop = "sent"
       THEN /\ stop' = "taken"
            /\ send(MsgExit)
            /\ main' = [main EXCEPT !.pc = "done", !.late = 0]
       ELSE /\ UNCHANGED <<stop, bus>>
            /\ main' = [main EXCEPT !.pc = IF main.pc = "check1" THEN "check2" ELSE "sleep"]
    /\ UNCHANGED <<aggVars, file, config, loadState, decideVars, environment, light, fan>>

\* controller.rs:290-292  the cycle sleep, then tx.send(Message::Time(Local::now()))?
MainSendTime ==
    /\ main.pc = "sleep"
    /\ main.cycle < MaxCycles
    /\ \E t \in NowTimes : send(MsgTime(t))
    /\ main' = slept([main EXCEPT !.pc = "read", !.i = 0, !.cycle = main.cycle + 1])
    /\ UNCHANGED <<aggVars, file, config, loadState, decideVars, environment, stop, light, fan>>

\* main has returned: the runtime is dropped and with it every task that has
\* not finished; the process exits.
RuntimeShutdown ==
    /\ main.pc \in {"done", "failed"}
    /\ main' = [main EXCEPT !.pc = "exited"]
    /\ UNCHANGED <<aggVars, file, config, loadState, decideVars, environment, stop, bus, light, fan>>

\* controller.rs:225-229  the handler task: ctrl_c() completes and Exit is
\* put into the oneshot.
Interrupt ==
    /\ stop = "armed"
    /\ main.pc # "exited"
    /\ stop' = "sent"
    /\ UNCHANGED <<aggVars, file, config, loadState, decideVars, main, environment, bus, light, fan>>

\* ------------------------------------------------------------ the tasks
\* Receiver::recv on the broadcast channel, for a receiver that has taken
\* `next` messages: Lagged when more than BUS_CAPACITY are waiting, the next
\* message when one waits, Closed once main has dropped tx, else pending.
recv_kind(next) ==
    IF Len(bus) - next > BUS_CAPACITY THEN "lagged"
    ELSE IF next < Len(bus) THEN "message"
    ELSE IF MainReturned THEN "closed"
    ELSE "pending"

\* A spawned task runs until the runtime is dropped.
RuntimeUp == main.pc # "exited"

\* match of the task loops: Time and Environment are recorded.
record_message(task, m) ==
    IF m.type = "Time" THEN [task EXCEPT !.last_time = Some(m.time)]
    ELSE IF m.type = "Environment" THEN [task EXCEPT !.last_env = Some(m.env)]
    ELSE task

\* controller.rs:75-78  Gpio::new()?, gpio.get(LIGHT_PIN)?, light.off()
LightStart ==
    /\ RuntimeUp
    /\ light.pc = "spawned"
    /\ \E gpio_ok \in BOOLEAN :
           light' = IF gpio_ok
                    THEN [light EXCEPT !.pc = "await_setup", !.out = "off"]
                    ELSE [light EXCEPT !.pc = "returned_err"]
    /\ UNCHANGED <<aggVars, file, config, loadState, decideVars, main, environment, stop, bus, fan>>

\* A task that waits for Setup and drops what comes before it.
await_setup_skipping(task) ==
    LET kind == recv_kind(task.next)
        m == bus[task.next + 1]
    IN  IF kind # "message" THEN [task EXCEPT !.pc = "returned_err"]
        ELSE IF m.type = "Setup"
        THEN [task EXCEPT !.pc = "running", !.next = task.next + 1, !.config = m.config]
        ELSE [task EXCEPT !.next = task.next + 1]

\* The first rx.recv().await? of a task and the if let Message::Setup.
await_setup(task) ==
    LET kind == recv_kind(task.next)
        m == bus[task.next + 1]
    IN  IF kind # "message" THEN [task EXCEPT !.pc = "returned_err"]
        ELSE IF m.type = "Setup"
        THEN [task EXCEPT !.pc = "running", !.next = task.next + 1, !.config = m.config]
        ELSE [task EXCEPT !.pc = "returned_err", !.next = task.next + 1]

\* controller.rs:80-91
LightAwaitSetup ==
    /\ RuntimeUp
    /\ light.pc = "await_setup"
    /\ recv_kind(light.next) # "pending"
    /\ light' = await_setup(light)
    /\ UNCHANGED <<aggVars, file, config, loadState, decideVars, main, environment, stop, bus, fan>>

\* The relay driven the wrong way round: on() where the decision is off.
light_apply_inverted(task) ==
    IF task.last_time = None \/ task.last_env = None THEN task
    ELSE LET d == light_on(task.config, task.last_time[1],
                           task.last_env[1][1], task.last_env[1][2])
         IN  IF d = "panic" THEN [task EXCEPT !.pc = "panicked"]
             ELSE [task EXCEPT !.out = IF d = "true" THEN "off" ELSE "on"]

\* controller.rs:117-127  the decision applied to the relay
light_apply(task) ==
    IF task.last_time = None \/ task.last_env = None THEN task
    ELSE LET d == light_on(task.config, task.last_time[1],
                           task.last_env[1][1], task.last_env[1][2])
         IN  IF d = "panic" THEN [task EXCEPT !.pc = "panicked"]
             ELSE [task EXCEPT !.out = IF d = "true" THEN "on" ELSE "off"]

\* The light loop without the break of its Exit arm.
LightLoopNoBreak ==
    /\ RuntimeUp
    /\ light.pc = "running"
    /\ recv_kind(light.next) # "pending"
    /\ light' =
         IF recv_kind(light.next) # "message" THEN [light EXCEPT !.pc = "returned_err"]
         ELSE light_apply(record_message([light EXCEPT !.next = light.next + 1],
                                         bus[light.next + 1]))
    /\ UNCHANGED <<aggVars, file, config, loadState, decideVars, main, environment, stop, bus, fan>>

\* controller.rs:93-128  one turn of the light loop
LightLoop ==
    /\ RuntimeUp
    /\ light.pc = "running"
    /\ recv_kind(light.next) # "pending"
    /\ light' =
         IF recv_kind(light.next) # "message" THEN [light EXCEPT !.pc = "returned_err"]
         ELSE LET m == bus[light.next + 1]
                  taken == [light EXCEPT !.next = light.next + 1]
              IN  IF m.type = "Exit" THEN [taken EXCEPT !.pc = "returned_ok"]
                  ELSE light_apply(record_message(taken, m))
    /\ UNCHANGED <<aggVars, file, config, loadState, decideVars, main, environment, stop, bus, fan>>

\* controller.rs:135-141  Pwm::with_frequency(.., 0.00, .., true)?
FanStart ==
    /\ RuntimeUp
    /\ fan.pc = "spawned"
    /\ \E pwm_ok \in BOOLEAN :
           fan' = IF pwm_ok
                  THEN [fan EXCEPT !.pc = "await_setup", !.out = Some(Float(0))]
                  ELSE [fan EXCEPT !.pc = "returned_err"]
    /\ UNCHANGED <<aggVars, file, config, loadState, decideVars, main, environment, stop, bus, light>>

\* controller.rs:143-152
FanAwaitSetup ==
    /\ RuntimeUp
    /\ fan.pc = "await_setup"
    /\ recv_kind(fan.next) # "pending"
    /\ fan' = await_setup(fan)
    /\ UNCHANGED <<aggVars, file, config, loadState, decideVars, main, environment, stop, bus, light>>

\* Config::fan_power and FanPower::as_duty_cycle
fan_power(c) == c.fan.power

\* The fan decision with the Result of set_duty_cycle thrown away: a failed
\* actuation leaves the PWM as it was and the task in its loop.
fan_apply_unchecked(task, pwm_ok) ==
    IF task.last_time = None \/ task.last_env = None THEN task
    ELSE LET d == fan_on(task.config, task.last_time[1],
                         task.last_env[1][1], task.last_env[1][2])
         IN  IF d = "panic" THEN [task EXCEPT !.pc = "panicked"]
             ELSE IF ~pwm_ok THEN task
             ELSE [task EXCEPT !.out = IF d = "true" THEN Some(fan_power(task.config))
                                       ELSE Some(Float(0))]

\* controller.rs:177-187  the decision applied to the PWM: Fan::on sets the
\* configured duty cycle, Fan::off sets 0.0; set_duty_cycle may fail, and `?`
\* then returns the error.
fan_apply(task, pwm_ok) ==
    IF task.last_time = None \/ task.last_env = None THEN task
    ELSE LET d == fan_on(task.config, task.last_time[1],
                         task.last_env[1][1], task.last_env[1][2])
         IN  IF d = "panic" THEN [task EXCEPT !.pc = "panicked"]
             ELSE IF ~pwm_ok THEN [task EXCEPT !.pc = "returned_err"]
             ELSE [task EXCEPT !.out = IF d = "true" THEN Some(fan_power(task.config))
                                       ELSE Some(Float(0))]

\* controller.rs:154-188  one turn of the fan loop
FanLoop ==
    /\ RuntimeUp
    /\ fan.pc = "running"
    /\ recv_kind(fan.next) # "pending"
    /\ \E pwm_ok \in BOOLEAN :
         fan' =
           IF recv_kind(fan.next) # "message" THEN [fan EXCEPT !.pc = "returned_err"]
           ELSE LET m == bus[fan.next + 1]
                    taken == [fan EXCEPT !.next = fan.next + 1]
                IN  IF m.type = "Exit" THEN [taken EXCEPT !.pc = "returned_ok"]
                    ELSE fan_apply(record_message(taken, m), pwm_ok)
    /\ UNCHANGED <<aggVars, file, config, loadState, decideVars, main, environment, stop, bus, light>>

Next ==
    \/ MainLoad \/ MainSpawn \/ MainSendSetup
    \/ MainInitRead \/ MainInitCheck
    \/ MainRead \/ MainStatus \/ MainSendEnvironment \/ MainCheck \/ MainSendTime
    \/ RuntimeShutdown \/ Interrupt
    \/ LightStart \/ LightAwaitSetup \/ LightLoop
    \/ FanStart \/ FanAwaitSetup \/ FanLoop

Spec == Init /\ [][Next]_vars

\* The controller under the scheduling of the tokio runtime: main's sleeps
\* end and its sends do not wait, so main takes its next step; a spawned task
\* whose recv is ready is polled for as long as the runtime is up; and the
\* runtime is dropped once main has returned.  The interrupt may never come.
\* The step of MainSendEnvironment is named by what it does to main, the
\* only step that takes main from the send to the first stop check.
MainRuns ==
    \/ MainLoad \/ MainSpawn \/ MainSendSetup
    \/ MainInitRead \/ MainInitCheck
    \/ MainRead \/ MainStatus \/ MainCheck \/ MainSendTime
MainSendsEnvironment == main.pc = "send_env" /\ main' = [main EXCEPT !.pc = "check1"]

SpecFair ==
    /\ Spec
    /\ WF_vars(MainRuns)
    /\ WF_main(MainSendsEnvironment)
    /\ WF_vars(LightStart \/ LightAwaitSetup \/ LightLoop)
    /\ WF_vars(FanStart \/ FanAwaitSetup \/ FanLoop)
    /\ WF_vars(RuntimeShutdown)

\* ------------------------------------------------- the tasks on any bus
\* light(rx) and fan(rx) take whatever the holder of the Sender sends: here
\* the two tasks run against a sender that broadcasts any messages in any
\* order, Setup first or not.
\* The number of messages that sender broadcasts.
MaxFeed == 4

\* The Config a Setup carries: the accepted file of the controller's runs.
TaskFile ==
    [fan |-> [power |-> Float(75), schedule |-> WindowSchedule],
     light |-> [schedule |-> WindowSchedule],
     thresholds |-> ControllerThresholds]

\* Estimates inside the threshold band, and above max_temp.
FeedEnvironments == { <<Float(77), Float(50)>>, <<Float(90), Float(50)>> }

FeedMessages ==
    {MsgSetup(from_file(TaskFile).config), MsgExit}
        \cup {MsgTime(t) : t \in NowTimes}
        \cup {MsgEnvironment(e[1], e[2]) : e \in FeedEnvironments}

\* Both receivers subscribed, both tasks spawned, nothing sent yet.
InitTasks ==
    /\ DefaultAggregator
    /\ file = TaskFile
    /\ config = from_file(TaskFile).config
    /\ loadState = "ready"
    /\ query = NoQuery
    /\ result = NoQuery
    /\ main = [pc |-> "feed", i |-> 0, cycle |-> 0, late |-> 0, read |-> "none"]
    /\ environment = <<>>
    /\ stop = "idle"
    /\ bus = <<>>
    /\ light = [Unspawned("unset") EXCEPT !.pc = "spawned"]
    /\ fan = [Unspawned(None) EXCEPT !.pc = "spawned"]

\* tx.send(msg) by the holder of the Sender
Feed ==
    /\ main.pc = "feed"
    /\ Len(bus) < MaxFeed
    /\ \E msg \in FeedMessages : send(msg)
    /\ UNCHANGED <<aggVars, file, config, loadState, decideVars, main, environment, stop, light, fan>>

NextTasks ==
    \/ Feed
    \/ LightStart \/ LightAwaitSetup \/ LightLoop
    \/ FanStart \/ FanAwaitSetup \/ FanLoop

SpecTasks == InitTasks /\ [][NextTasks]_vars

\* ------------------------------------------- a producer ahead of its tasks
\* How far past the capacity of the bus the producer may get.
MaxLag == 2

\* What main sends in the order it sends it: Setup, then Environment and
\* Time in turn (controller.rs:234, 271-274, 292).
Produced(n) ==
    IF n = 0 THEN MsgSetup(from_file(TaskFile).config)
    ELSE IF n % 2 = 1 THEN MsgEnvironment(Float(90), Float(50))
    ELSE MsgTime(DayLen + 0)

InitLag ==
    /\ DefaultAggregator
    /\ file = TaskFile
    /\ config = from_file(TaskFile).config
    /\ loadState = "ready"
    /\ query = NoQuery
    /\ result = NoQuery
    /\ main = [pc |-> "produce", i |-> 0, cycle |-> 0, late |-> 0, read |-> "none"]
    /\ environment = <<>>
    /\ stop = "idle"
    /\ bus = <<>>
    /\ light = [Unspawned("unset") EXCEPT !.pc = "spawned"]
    /\ fan = [Unspawned(None) EXCEPT !.pc = "spawned"]

\* tx.send never waits for a receiver: the broadcast channel overwrites its
\* oldest slot.
Produce ==
    /\ main.pc = "produce"
    /\ Len(bus) < BUS_CAPACITY + MaxLag
    /\ send(Produced(Len(bus)))
    /\ UNCHANGED <<aggVars, file, config, loadState, decideVars, main, environment, stop, light, fan>>

NextLag ==
    \/ Produce
    \/ LightStart \/ LightAwaitSetup \/ LightLoop
    \/ FanStart \/ FanAwaitSetup \/ FanLoop

SpecLag == InitLag /\ [][NextLag]_vars

\* ------------------------------------------------ the Environment alone
\* Capacities are powers of two up to 2^MaxCapacityLog2, which every version
\* of AllocRingBuffer::with_capacity accepts.
MaxCapacityLog2 == 2
\* Most readings passed to add_reading in one run.
MaxOffered == 4

Capacities == {2 ^ k : k \in 0 .. MaxCapacityLog2}

Reading(t, h) == [temperature |-> t, humidity |-> h]

\* Readings (Celsius, %): at the two ends of the accepted humidity range, a
\* whole number and an infinite temperature, which add_reading does not
\* reject; one in tenths, as the DHT22 reports them (22.7 C, 43.4 %); just
\* outside the range on either side; and with a NaN field.
AggReadings ==
    { Reading(Float(20), Float(0)), Reading(Inf, Float(100)),
      Reading(FloatDiv(Float(227), Float(10)), FloatDiv(Float(434), Float(10))),
      Reading(Float(20), Float(-1)), Reading(Float(20), Float(101)),
      Reading(NaN, Float(50)), Reading(Float(20), NaN) }

\* Environment::with_readings(capacity): an empty ring.
InitAggregator ==
    /\ file = TaskFile
    /\ config = NoConfig
    /\ loadState = "start"
    /\ query = NoQuery
    /\ result = NoQuery
    /\ NotStarted
    /\ capacity \in Capacities
    /\ offered = <<>>
    /\ estimate = NoEstimate

\* environment.add_reading(reading)
AddReading ==
    /\ estimate = NoEstimate
    /\ Len(offered) < MaxOffered
    /\ \E reading \in AggReadings :
         /\ environment' = add_reading(environment, capacity, reading)
         /\ offered' = Append(offered, reading)
    /\ UNCHANGED <<file, config, loadState, decideVars, main, stop, bus, light, fan,
                   capacity, estimate>>

\* environment.temp() and environment.humidity(): &self, the ring is only read.
Estimate ==
    /\ estimate = NoEstimate
    /\ estimate' = [temp |-> temp(environment), humidity |-> humidity(environment)]
    /\ UNCHANGED <<file, config, loadState, decideVars, ctlVars, capacity, offered>>

NextAggregator == AddReading \/ Estimate

SpecAggregator == InitAggregator /\ [][NextAggregator]_vars

\* ================================================= the thread-based controller
\* src/main.rs: main, a light and a fan thread, and the Ctrl-C handler, on
\* one crossbeam channel.  unbounded() gives one queue; rx.clone() gives
\* another handle on the same queue, so a message is taken by the one
\* receiver whose recv or try_recv gets to it first.  bus keeps every message
\* sent, in order; a receiver keeps in `got` the positions of the messages it
\* took; the queue holds the positions from Front on.
Front == Len(main.got) + Len(light.got) + Len(fan.got) + 1
ChannelEmpty == Front > Len(bus)

\* Local::now() as the threads read it: hour and minute, inside the morning
\* lighting range and the first ten minutes, and outside both.
ThreadNow == { [hour |-> 7, minute |-> 5], [hour |-> 12, minute |-> 30] }

THRESHOLD_TEMP_TOO_HIGH == Float(82)
THRESHOLD_TEMP_TOO_LOW == Float(62)
THRESHOLD_HUMIDITY_TOO_HIGH == Float(80)

\* FanPower::try_from(75.0)?.as_duty_cycle()
FanDutyCycle == FloatDiv(Float(75), Float(100))

InitThreads ==
    /\ DefaultAggregator
    /\ file = TaskFile
    /\ config = NoConfig
    /\ loadState = "start"
    /\ query = NoQuery
    /\ result = NoQuery
    /\ main = [pc |-> "start", i |-> 0, cycle |-> 0, got |-> <<>>]
    /\ environment = <<>>
    /\ stop = "idle"
    /\ bus = <<>>
    /\ light = [pc |-> "unspawned", got |-> <<>>, out |-> "unset"]
    /\ fan = [pc |-> "unspawned", got |-> <<>>, out |-> None]

\* main.rs:287-291  unbounded(), tx.clone() and set_handler: from here on a
\* Ctrl-C runs the handler.
ThreadMainStart ==
    /\ main.pc = "start"
    /\ stop' = "armed"
    /\ main' = [main EXCEPT !.pc = "spawn"]
    /\ UNCHANGED <<aggVars, file, config, loadState, decideVars, environment, bus, light, fan>>

\* main.rs:291  the handler: term_tx.send(Message::Exit), for one Ctrl-C.
Handler ==
    /\ stop = "armed"
    /\ main.pc # "done"
    /\ stop' = "sent"
    /\ send(MsgExit)
    /\ UNCHANGED <<aggVars, file, config, loadState, decideVars, main, environment, light, fan>>

\* main.rs:293-297  rx.clone() twice and the two spawns
ThreadMainSpawn ==
    /\ main.pc = "spawn"
    /\ main' = [main EXCEPT !.pc = "init_read"]
    /\ light' = [light EXCEPT !.pc = "spawned"]
    /\ fan' = [fan EXCEPT !.pc = "spawned"]
    /\ UNCHANGED <<aggVars, file, config, loadState, decideVars, environment, stop, bus>>

\* main.rs:303-308  one warm-up reading and its sleep; the channel is not
\* looked at.
ThreadMainInitRead ==
    /\ main.pc = "init_read"
    /\ \E o \in SensorOutcomes : environment' = read_sensor(environment, o)
    /\ main' = IF main.i + 1 = INITIAL_SENSOR_READINGS
               THEN [main EXCEPT !.pc = "read", !.i = 0]
               ELSE [main EXCEPT !.i = main.i + 1]
    /\ UNCHANGED <<aggVars, file, config, loadState, decideVars, stop, bus, light, fan>>

\* main_rx.try_recv(): the message at the head of the queue, if any, is taken
\* out whatever it is.
try_recv(m) == IF ChannelEmpty THEN m ELSE [m EXCEPT !.got = Append(m.got, Front)]

\* if let Ok(Message::Exit) = main_rx.try_recv()
TakesExit == ~ChannelEmpty /\ bus[Front].type = "Exit"

\* main.rs:315-325  one reading of a cycle, the try_recv after it (an Exit
\* ends the for loop only) and the sleep.
ThreadMainRead ==
    /\ main.pc = "read"
    /\ \E o \in SensorOutcomes : environment' = read_sensor(environment, o)
    /\ main' = IF TakesExit \/ main.i + 1 = SENSOR_READINGS
               THEN [try_recv(main) EXCEPT !.pc = "send_env", !.i = 0]
               ELSE [try_recv(main) EXCEPT !.i = main.i + 1]
    /\ UNCHANGED <<aggVars, file, config, loadState, decideVars, stop, bus, light, fan>>

\* main.rs:328-331  tx.send(Message::Environment(..))?: main holds a
\* receiver, so the send does not fail.
ThreadMainSendEnvironment ==
    /\ main.pc = "send_env"
    /\ send(MsgEnvironment(temp(environment), humidity(environment)))
    /\ main' = [main EXCEPT !.pc = "check1"]
    /\ UNCHANGED <<aggVars, file, config, loadState, decideVars, environment, stop, light, fan>>

\* main.rs:333-345  the try_recv after the send, and the one after the cycle
\* sleep: on Exit main leaves the loop for the joins.
ThreadMainCheck ==
    /\ main.pc \in {"check1", "check2"}
    /\ main' = IF TakesExit THEN [try_recv(main) EXCEPT !.pc = "join_light"]
               ELSE [try_recv(main) EXCEPT
                        !.pc = IF main.pc = "check1" THEN "check2" ELSE "send_time"]
    /\ UNCHANGED <<aggVars, file, config, loadState, decideVars, environment, stop, bus, light, fan>>

\* main.rs:347  tx.send(Message::Time(Local::now()))?
ThreadMainSendTime ==
    /\ main.pc = "send_time"
    /\ main.cycle < MaxCycles
    /\ \E now \in ThreadNow : send(MsgTime(now))
    /\ main' = [main EXCEPT !.pc = "read", !.i = 0, !.cycle = main.cycle + 1]
    /\ UNCHANGED <<aggVars, file, config, loadState, decideVars, environment, stop, light, fan>>

\* JoinHandle::join returns once the thread has returned.
HasReturned(thread) == thread.pc \in {"returned_ok", "returned_err"}

\* main.rs:350-351  light.join(), then fan.join()
ThreadMainJoin ==
    /\ \/ main.pc = "join_light" /\ HasReturned(light) /\ main' = [main EXCEPT !.pc = "join_fan"]
       \/ main.pc = "join_fan" /\ HasReturned(fan) /\ main' = [main EXCEPT !.pc = "done"]
    /\ UNCHANGED <<aggVars, file, config, loadState, decideVars, environment, stop, bus, light, fan>>

\* main.rs:162-165  Gpio::new()?, gpio.get(LIGHT_PIN)?, set_high()
LightThreadStart ==
    /\ light.pc = "spawned"
    /\ \E gpio_ok \in BOOLEAN :
           light' = IF gpio_ok THEN [light EXCEPT !.pc = "running", !.out = "high"]
                    ELSE [light EXCEPT !.pc = "returned_err"]
    /\ UNCHANGED <<aggVars, file, config, loadState, decideVars, main, environment, stop, bus, fan>>

\* main.rs:169-203  the pin after a Time or an Environment
light_pin(out, m) ==
    IF m.type = "Time"
    THEN (IF \/ m.time.hour >= 6 /\ m.time.hour <= 8
             \/ m.time.hour >= 19 /\ m.time.hour <= 22
          THEN "low" ELSE "high")
    ELSE LET by_temp == IF FloatGe(m.env[1], THRESHOLD_TEMP_TOO_HIGH) THEN "high"
                        ELSE IF FloatLe(m.env[1], THRESHOLD_TEMP_TOO_LOW) THEN "low"
                        ELSE out
         IN  IF FloatGe(m.env[2], THRESHOLD_HUMIDITY_TOO_HIGH) THEN "low" ELSE by_temp

\* main.rs:167-210  one turn of the light loop: rx.recv()? waits for a
\* message (a Sender is always alive, so it does not fail) and takes it.
LightThreadLoop ==
    /\ light.pc = "running"
    /\ ~ChannelEmpty
    /\ LET m == bus[Front]
           taken == [light EXCEPT !.got = Append(light.got, Front)]
       IN  light' = IF m.type = "Exit" THEN [taken EXCEPT !.pc = "returned_ok"]
                    ELSE [taken EXCEPT !.out = light_pin(light.out, m)]
    /\ UNCHANGED <<aggVars, file, config, loadState, decideVars, main, environment, stop, bus, fan>>

\* main.rs:217-226  Pwm::with_frequency(.., 0.00, .., true)?
FanThreadStart ==
    /\ fan.pc = "spawned"
    /\ \E pwm_ok \in BOOLEAN :
           fan' = IF pwm_ok THEN [fan EXCEPT !.pc = "running", !.out = Some(Float(0))]
                  ELSE [fan EXCEPT !.pc = "returned_err"]
    /\ UNCHANGED <<aggVars, file, config, loadState, decideVars, main, environment, stop, bus, light>>

\* main.rs:230-258  the duty cycles a Time or an Environment makes the fan
\* set, in order.
fan_duties(m) ==
    IF m.type = "Time"
    THEN (IF m.time.minute <= 10 THEN <<FanDutyCycle>> ELSE <<>>)
    ELSE (IF FloatGe(m.env[1], THRESHOLD_TEMP_TOO_HIGH) THEN <<FanDutyCycle>>
          ELSE IF FloatLe(m.env[1], THRESHOLD_TEMP_TOO_LOW) THEN <<Float(0)>>
          ELSE <<>>)
         \o (IF FloatGe(m.env[2], THRESHOLD_HUMIDITY_TOO_HIGH) THEN <<FanDutyCycle>>
             ELSE <<>>)

\* main.rs:228-266  one turn of the fan loop; fan_pwm.set_duty_cycle(..)?
\* returns the error of a failed actuation.
FanThreadLoop ==
    /\ fan.pc = "running"
    /\ ~ChannelEmpty
    /\ \E pwm_ok \in BOOLEAN :
         LET m == bus[Front]
             taken == [fan EXCEPT !.got = Append(fan.got, Front)]
         IN  fan' = IF m.type = "Exit" THEN [taken EXCEPT !.pc = "returned_ok"]
                    ELSE LET duties == fan_duties(m)
                         IN  IF duties = <<>> THEN taken
                             ELSE IF ~pwm_ok THEN [taken EXCEPT !.pc = "returned_err"]
                             ELSE [taken EXCEPT !.out = Some(duties[Len(duties)])]
    /\ UNCHANGED <<aggVars, file, config, loadState, decideVars, main, environment, stop, bus, light>>

NextThreads ==
    \/ ThreadMainStart \/ ThreadMainSpawn \/ ThreadMainInitRead \/ ThreadMainRead
    \/ ThreadMainSendEnvironment \/ ThreadMainCheck \/ ThreadMainSendTime
    \/ ThreadMainJoin \/ Handler
    \/ LightThreadStart \/ LightThreadLoop
    \/ FanThreadStart \/ FanThreadLoop

SpecThreads == InitThreads /\ [][NextThreads]_vars

\* The threads under the scheduling of the operating system: a thread that
\* can take a step takes one; the Ctrl-C may never come.  The step of
\* ThreadMainSendEnvironment is named by what it does to main.
ThreadMainRuns ==
    \/ ThreadMainStart \/ ThreadMainSpawn \/ ThreadMainInitRead \/ ThreadMainRead
    \/ ThreadMainCheck \/ ThreadMainSendTime \/ ThreadMainJoin

SpecThreadsFair ==
    /\ SpecThreads
    /\ WF_vars(ThreadMainRuns)
    /\ WF_main(MainSendsEnvironment)
    /\ WF_vars(LightThreadStart \/ LightThreadLoop)
    /\ WF_vars(FanThreadStart \/ FanThreadLoop)

\* ------------------------------------------------- vocabulary of the claims
\* The query time lies in [on.time, off.time) of some consecutive pair.
InWindow(schedule, t) ==
    \E k \in 1 .. (Len(schedule) \div 2) :
        /\ time_of_day(schedule[2 * k - 1].time) <= time_of_day(t)
        /\ time_of_day(t) < time_of_day(schedule[2 * k].time)

LightOverrideOn(c, q) ==
    \/ FloatGt(q.humidity, c.thresholds.max_humidity)
    \/ FloatLt(q.temp, c.thresholds.min_temp)
LightOverrideOff(c, q) == FloatGt(q.temp, c.thresholds.max_temp)
FanOverrideOn(c, q) ==
    \/ FloatGt(q.humidity, c.thresholds.max_humidity)
    \/ FloatGt(q.temp, c.thresholds.max_temp)
FanOverrideOff(c, q) ==
    \/ FloatLt(q.humidity, c.thresholds.min_humidity)
    \/ FloatLt(q.temp, c.thresholds.min_temp)

\* temp and humidity strictly inside the threshold band
Nominal(c, q) ==
    /\ FloatGt(q.temp, c.thresholds.min_temp) /\ FloatLt(q.temp, c.thresholds.max_temp)
    /\ FloatGt(q.humidity, c.thresholds.min_humidity)
    /\ FloatLt(q.humidity, c.thresholds.max_humidity)

EvenLength(schedule) == Len(schedule) % 2 = 0

SortedAscending(schedule) ==
    \A i, j \in 1 .. Len(schedule) :
        i < j => time_of_day(schedule[i].time) <= time_of_day(schedule[j].time)

StrictlyAscending(schedule) ==
    \A i, j \in 1 .. Len(schedule) :
        i < j => time_of_day(schedule[i].time) < time_of_day(schedule[j].time)

LoadInvariants(schedule) ==
    SortedAscending(schedule) /\ EvenLength(schedule) /\ first_is_on(schedule)

\* At the On time of every pair the outcome is "true", at the Off time "false".
BoundariesDecided(schedule, t, outcome) ==
    \A k \in 1 .. (Len(schedule) \div 2) :
        /\ time_of_day(t) = time_of_day(schedule[2 * k - 1].time) => outcome = "true"
        /\ time_of_day(t) = time_of_day(schedule[2 * k].time) => outcome = "false"

\* ------------------------------------------------------------ the claims
\* C1: for every Config, time and environment, light_on returns
\* (schedule_match OR humidity > max_humidity OR temp < min_temp) AND NOT
\* (temp > max_temp), schedule_match being: the time of day lies in
\* [on.time, off.time) of some consecutive pair of the light schedule.
C1_LightOnDecision ==
    Asked =>
        result.light_on =
            Returned((InWindow(config.light.schedule, query.time)
                      \/ LightOverrideOn(config, query))
                     /\ ~LightOverrideOff(config, query))

\* C2: for every Config, time and environment, fan_on returns
\* (schedule_match OR humidity > max_humidity OR temp > max_temp) AND NOT
\* (humidity < min_humidity OR temp < min_temp) on the fan schedule; so with
\* no fan window at the time, humidity above the maximum and no off-override
\* it returns true.
C2_FanOnDecision ==
    Asked =>
        result.fan_on =
            Returned((InWindow(config.fan.schedule, query.time)
                      \/ FanOverrideOn(config, query))
                     /\ ~FanOverrideOff(config, query))

\* C3: whenever the off-override of an actuator holds, its decision function
\* returns false, whatever the schedule and the on-override say.
C3_OverrideOffDominates ==
    Asked =>
        /\ LightOverrideOff(config, query) => result.light_on = "false"
        /\ FanOverrideOff(config, query) => result.fan_on = "false"

\* C4: light_off is the exact negation of light_on and fan_off of fan_on, on
\* every Config, time and environment: one returns true where the other
\* returns false, and one faults exactly where the other does.
C4_NegationLaw ==
    Asked =>
        /\ result.light_on = "true" <=> result.light_off = "false"
        /\ result.light_on = "false" <=> result.light_off = "true"
        /\ result.light_on = "panic" <=> result.light_off = "panic"
        /\ result.fan_on = "true" <=> result.fan_off = "false"
        /\ result.fan_on = "false" <=> result.fan_off = "true"
        /\ result.fan_on = "panic" <=> result.fan_off = "panic"

\* C4 witness: both orientations of the law on one query, the light decided
\* on by an override and the fan decided off.
C4_Witness ==
    /\ Asked
    /\ result.light_on = "true" /\ result.light_off = "false"
    /\ result.fan_on = "false" /\ result.fan_off = "true"
    /\ LightOverrideOn(config, query)

\* C5 as stated: on a schedule that is sorted ascending, of even length and
\* starts with On, with no override, a query at the On time of any pair is
\* decided on and a query at the paired Off time is decided off.
C5_BoundariesOnSorted ==
    (Asked /\ ~LightOverrideOn(config, query) /\ ~LightOverrideOff(config, query)
           /\ ~FanOverrideOn(config, query) /\ ~FanOverrideOff(config, query)) =>
        /\ LoadInvariants(config.light.schedule) =>
               BoundariesDecided(config.light.schedule, query.time, result.light_on)
        /\ LoadInvariants(config.fan.schedule) =>
               BoundariesDecided(config.fan.schedule, query.time, result.fan_on)

\* C5 amended: the same on a schedule whose times of day are strictly
\* ascending (no two events share a time of day), of even length, first On.
C5_BoundariesOnStrictlySorted ==
    (Asked /\ ~LightOverrideOn(config, query) /\ ~LightOverrideOff(config, query)
           /\ ~FanOverrideOn(config, query) /\ ~FanOverrideOff(config, query)) =>
        /\ (LoadInvariants(config.light.schedule)
            /\ StrictlyAscending(config.light.schedule)) =>
               BoundariesDecided(config.light.schedule, query.time, result.light_on)
        /\ (LoadInvariants(config.fan.schedule)
            /\ StrictlyAscending(config.fan.schedule)) =>
               BoundariesDecided(config.fan.schedule, query.time, result.fan_on)

\* C5 witness: a loaded Config with two daily windows, queried at the Off time
\* of the first window, which is decided off for light and fan, the second
\* window's On time being later.
C5_Witness ==
    /\ Asked /\ loadState = "ready"
    /\ Len(config.light.schedule) = 4
    /\ LoadInvariants(config.light.schedule)
    /\ StrictlyAscending(config.light.schedule)
    /\ time_of_day(query.time) = time_of_day(config.light.schedule[2].time)
    /\ result.light_on = "false" /\ result.fan_on = "false"

\* C6: with a nominal environment light_on and fan_on return true exactly
\* when the query time lies inside a window of the actuator's schedule, and
\* light_off and fan_off return true exactly when it lies outside all.
C6_NominalFollowsSchedule ==
    (Asked /\ Nominal(config, query)) =>
        /\ result.light_on = Returned(InWindow(config.light.schedule, query.time))
        /\ result.fan_on = Returned(InWindow(config.fan.schedule, query.time))
        /\ result.light_off = Returned(~InWindow(config.light.schedule, query.time))
        /\ result.fan_off = Returned(~InWindow(config.fan.schedule, query.time))

\* C8: every Config that setup accepts has a light and a fan schedule of even
\* length.
C8_SetupRejectsOddLength ==
    loadState = "ready" =>
        EvenLength(config.light.schedule) /\ EvenLength(config.fan.schedule)

\* ----------------------------------------------- the claims on the controller
\* The event a stable sort by time of day puts first.
FirstWhenSorted(schedule) ==
    schedule[CHOOSE i \in 1 .. Len(schedule) :
                 \A j \in 1 .. Len(schedule) :
                     \/ time_of_day(schedule[i].time) < time_of_day(schedule[j].time)
                     \/ /\ time_of_day(schedule[i].time) = time_of_day(schedule[j].time)
                        /\ i <= j]

\* A schedule that is empty or whose first event, once sorted, is Off.
BadSchedule(schedule) ==
    schedule = <<>> \/ FirstWhenSorted(schedule).action = "Off"

\* A fan power outside [0, 100].
PowerOutOfRange(value) ==
    is_nan(value) \/ FloatLt(value, Float(0)) \/ FloatGt(value, Float(100))

ConfigurationError(f) ==
    \/ BadSchedule(f.light.schedule)
    \/ BadSchedule(f.fan.schedule)
    \/ PowerOutOfRange(f.fan.power)

\* The kinds of the messages on the bus, in the order they were sent.
Sent(kinds) == SelectSeq(bus, LAMBDA m : m.type \in kinds)

FirstReceivedIsSetup(task) ==
    task.next >= 1 =>
        /\ bus[1].type = "Setup"
        /\ task.config = bus[1].config
        /\ task.pc \in {"running", "returned_ok", "returned_err", "panicked"}

\* C9: the Supervisor broadcasts Setup exactly once; Setup is the first
\* message on the bus, before every Time, Environment and Exit; and the
\* first message each actuator task receives is that Setup.
C9_SetupFirst ==
    /\ Len(Sent({"Setup"})) <= 1
    /\ bus # <<>> => bus[1] = MsgSetup(config)
    /\ (loadState = "ready" /\ main.pc \notin {"spawn", "send_setup"}) =>
           Len(Sent({"Setup"})) = 1
    /\ FirstReceivedIsSetup(light) /\ FirstReceivedIsSetup(fan)
    /\ light.pc = "running" => light.next >= 1
    /\ fan.pc = "running" => fan.next >= 1

\* C9 witness: Environment, Time and Exit have followed the one Setup on the
\* bus and both tasks have taken Setup and later messages.
C9_Witness ==
    /\ Len(Sent({"Setup"})) = 1
    /\ Len(Sent({"Environment"})) >= 1 /\ Len(Sent({"Time"})) >= 1
    /\ Len(Sent({"Exit"})) = 1
    /\ light.next >= 2 /\ fan.next >= 2
    /\ light.config = config /\ fan.config = config

\* main is in the steady loop or has left it.
InSteadyLoop ==
    /\ loadState = "ready"
    /\ main.pc \in {"read", "status", "send_env", "check1", "check2", "sleep",
                    "done", "failed", "exited"}

\* The current cycle is past its broadcast, or main has returned.
CycleOver == MainReturned \/ main.pc \in {"check1", "check2", "sleep"}

\* C10: in every steady-state cycle the Supervisor broadcasts exactly one
\* Environment and at most one Time, the Time after the Environment: the
\* Environment and Time messages on the bus alternate, starting with an
\* Environment, and a cycle that is over has had its Environment.
C10_PerCycleOrder ==
    LET body == Sent({"Environment", "Time"})
    IN  /\ \A i \in 1 .. Len(body) :
               body[i].type = IF i % 2 = 1 THEN "Environment" ELSE "Time"
        /\ Len(Sent({"Time"})) = main.cycle
        /\ Len(Sent({"Environment"})) \in {main.cycle, main.cycle + 1}
        /\ (InSteadyLoop /\ CycleOver) => Len(Sent({"Environment"})) = main.cycle + 1

\* A task has finished: it returned (Ok on Exit, Err otherwise) or panicked.
Terminated(task) == task.pc \in {"returned_ok", "returned_err", "panicked"}

\* C11: on shutdown the Supervisor broadcasts exactly one Exit, and when the
\* Supervisor process has exited after it, the light and the fan task have
\* both reached Terminated.
C11_TasksTerminatedBeforeProcessExit ==
    /\ Len(Sent({"Exit"})) <= 1
    /\ (main.pc = "exited" /\ Len(Sent({"Exit"})) = 1) =>
           Terminated(light) /\ Terminated(fan)

\* C12: the Supervisor checks the shutdown signal after each individual
\* sample wait, in the warm-up and in the steady phase: with the interrupt
\* pending and Exit not yet broadcast it sits through at most one wait, never
\* through a second one (the rest of a cycle of sample waits, or the
\* inter-cycle sleep and a sample wait).
C12_BoundedShutdownLatency == main.late <= 1

\* The message a task received first (both receivers subscribe to an empty
\* bus, so it is the first message sent) was not Setup.
FirstReceivedIsNotSetup(task) == task.next >= 1 /\ bus[1].type # "Setup"

\* The task has returned an error having taken one message, with nothing
\* recorded, no Config, and its output as the start-up code left it.
FailedUndriven(task, undriven) ==
    /\ task.pc = "returned_err" /\ task.next = 1
    /\ task.config = NoConfig
    /\ task.last_time = None /\ task.last_env = None
    /\ task.out = undriven

\* C13: a light or fan task whose first received message is Time,
\* Environment or Exit terminates with an error, having evaluated no decision
\* and driven its hardware from none; only Setup moves a task to Running.
C13_AwaitingSetupProtocol ==
    /\ FirstReceivedIsNotSetup(light) => FailedUndriven(light, "off")
    /\ FirstReceivedIsNotSetup(fan) => FailedUndriven(fan, Some(Float(0)))
    /\ light.pc \in {"running", "returned_ok", "panicked"} =>
           bus[1].type = "Setup" /\ light.config = bus[1].config
    /\ fan.pc \in {"running", "returned_ok", "panicked"} =>
           bus[1].type = "Setup" /\ fan.config = bus[1].config

\* C13 witness: Environment came first and Setup, Time after it; both tasks
\* have taken the Environment and returned the error.
C13_Witness ==
    /\ Len(bus) >= 3 /\ bus[1].type = "Environment"
    /\ bus[2].type = "Setup" /\ bus[3].type = "Time"
    /\ FailedUndriven(light, "off") /\ FailedUndriven(fan, Some(Float(0)))

\* The messages a task has taken after its Setup.
Taken(task) == SubSeq(bus, 2, task.next)

\* Some(payload) of the last message of a kind among msgs, None without one.
LastOf(kind, msgs) ==
    LET at == {i \in 1 .. Len(msgs) : msgs[i].type = kind}
    IN  IF at = {} THEN None
        ELSE LET m == msgs[CHOOSE i \in at : \A j \in at : j <= i]
             IN  Some(IF kind = "Time" THEN m.time ELSE m.env)

\* The task took Setup first and has not failed since.
RunningOrExited(task) == task.pc \in {"running", "returned_ok"}

Populated(task) == task.last_time # None /\ task.last_env # None

\* What the decision functions say on what the task has recorded.
LightDecided(task) ==
    IF light_on(task.config, task.last_time[1],
                task.last_env[1][1], task.last_env[1][2]) = "true"
    THEN "on" ELSE "off"
FanDecided(task) ==
    IF fan_on(task.config, task.last_time[1],
              task.last_env[1][1], task.last_env[1][2]) = "true"
    THEN Some(fan_power(task.config)) ELSE Some(Float(0))

\* C14: a task in Running holds in last_time the last Time and in last_env
\* the last Environment it has taken; once both are populated its output is
\* light_on / fan_on evaluated on them (the fan at the configured power); and
\* until both are populated the output is the initial off state.
C14_RunningStateInvariant ==
    /\ RunningOrExited(light) =>
           /\ light.last_time = LastOf("Time", Taken(light))
           /\ light.last_env = LastOf("Environment", Taken(light))
           /\ light.out = IF Populated(light) THEN LightDecided(light) ELSE "off"
    /\ RunningOrExited(fan) =>
           /\ fan.last_time = LastOf("Time", Taken(fan))
           /\ fan.last_env = LastOf("Environment", Taken(fan))
           /\ fan.out = IF Populated(fan) THEN FanDecided(fan) ELSE Some(Float(0))
    /\ ~Populated(light) => light.out \in {"unset", "off"}
    /\ ~Populated(fan) => fan.out \in {None, Some(Float(0))}

\* C14 witness: inside the window of both schedules and above max_temp, the
\* light has been switched off and the fan runs at the configured power,
\* after both were on at the nominal estimate.
C14_Witness ==
    /\ light.pc = "running" /\ fan.pc = "running"
    /\ light.next = 4 /\ fan.next = 4
    /\ bus[3] = MsgEnvironment(Float(77), Float(50))
    /\ light.last_time = Some(DayLen + 0)
    /\ light.last_env = Some(<<Float(90), Float(50)>>)
    /\ light.out = "off" /\ fan.out = Some(fan_power(fan.config))

\* The task stopped at the first Exit sent after its Setup, having taken
\* every message before it, and holds what those messages left.
StoppedAtExit(task, decided, off) ==
    /\ bus[task.next].type = "Exit"
    /\ \A i \in 2 .. task.next - 1 : bus[i].type # "Exit"
    /\ task.last_time = LastOf("Time", SubSeq(bus, 2, task.next - 1))
    /\ task.last_env = LastOf("Environment", SubSeq(bus, 2, task.next - 1))
    /\ task.out = IF Populated(task) THEN decided ELSE off

\* The step in which a Running task takes Exit changes nothing but its
\* position, and a task that has returned on Exit never changes again.
ExitStepsOf(task, task_next) ==
    /\ (task.pc = "running" /\ task_next.pc = "returned_ok") =>
           task_next = [task EXCEPT !.pc = "returned_ok", !.next = task.next + 1]
    /\ task.pc = "returned_ok" => task_next = task

\* C15: a Running task that receives Exit returns without changing its
\* output or what it recorded, after taking in order every message sent
\* before the Exit; no task in Running has taken an Exit; and no message sent
\* later changes a task that has returned.
C15_TerminatedIsTerminal ==
    /\ [](/\ light.pc = "returned_ok" => StoppedAtExit(light, LightDecided(light), "off")
          /\ fan.pc = "returned_ok" => StoppedAtExit(fan, FanDecided(fan), Some(Float(0)))
          /\ \A task \in {light, fan} :
                 task.pc = "running" => \A i \in 2 .. task.next : bus[i].type # "Exit")
    /\ [][ExitStepsOf(light, light') /\ ExitStepsOf(fan, fan')]_vars

\* C15 witness: after Setup a Time, an Exit and then a hot Environment were
\* sent; both tasks returned at the Exit, and the Environment that followed
\* it is on the bus without having been recorded.
C15_Witness ==
    /\ Len(bus) = 4 /\ bus[2] = MsgTime(DayLen + 0) /\ bus[3].type = "Exit"
    /\ bus[4] = MsgEnvironment(Float(90), Float(50))
    /\ light.pc = "returned_ok" /\ light.next = 3 /\ light.out = "off"
    /\ light.last_env = None
    /\ fan.pc = "returned_ok" /\ fan.next = 3

\* A Running task with more messages waiting than the bus holds.
Lagging(task) == task.pc = "running" /\ Len(bus) - task.next > BUS_CAPACITY

\* C16: an actuator task that has fallen more than the bus capacity behind
\* the producer keeps running when it next receives (the excess messages are
\* dropped for it), and the producer is never blocked by it.
C16_SlowConsumerTolerance ==
    [][/\ (Lagging(light) /\ light' # light) => light'.pc = "running"
       /\ (Lagging(fan) /\ fan' # fan) => fan'.pc = "running"]_vars

\* The fan task left its loop on a failed fan.on() / fan.off(): it had taken
\* Setup, Time and Environment, and it stopped neither on Lagged (the bus
\* never held more than its capacity) nor on Closed (messages were sent after
\* the one it stopped at).
FanActuationFailed ==
    /\ fan.pc = "returned_err" /\ fan.config # NoConfig /\ Populated(fan)
    /\ fan.next < Len(bus) /\ Len(bus) <= BUS_CAPACITY

\* C17: a failed fan.on() / fan.off() ends the fan task, which never
\* actuates again (a fan still Running holds the decision it applied); no
\* step of the fan task touches the light task, the Supervisor or the bus;
\* and with the fan task gone the light task still takes every delivered
\* message and its relay is still what light_on decides.
C17_FanErrorsIsolated ==
    /\ [](/\ (fan.pc = "running" /\ Populated(fan)) => fan.out = FanDecided(fan)
          /\ (FanActuationFailed /\ RunningOrExited(light)) =>
                 /\ light.last_time = LastOf("Time", Taken(light))
                 /\ light.last_env = LastOf("Environment", Taken(light))
                 /\ light.out = IF Populated(light) THEN LightDecided(light) ELSE "off"
          /\ (FanActuationFailed /\ light.pc = "running" /\ RuntimeUp
                  /\ recv_kind(light.next) = "message") => ENABLED LightLoop)
    /\ [][/\ fan.pc = "returned_err" => fan' = fan
          /\ (fan.pc # "unspawned" /\ fan' # fan) =>
                 UNCHANGED <<main, environment, stop, bus, light>>]_vars

\* C17 witness: the fan task failed at its first decision (the Time after
\* the first Environment); the Supervisor went on to send a further
\* Environment and finally Exit, and the light task took them all and
\* returned at the Exit.
C17_Witness ==
    /\ FanActuationFailed /\ fan.next = 3
    /\ Len(bus) >= 5 /\ bus[Len(bus)].type = "Exit"
    /\ Len(Sent({"Environment"})) >= 2 /\ Len(Sent({"Time"})) >= 1
    /\ light.pc = "returned_ok" /\ light.next = Len(bus)
    /\ Populated(light)

\* A sample the aggregator must not take: humidity below 0 or above 100, or
\* a NaN field.
Invalid(reading) ==
    \/ is_nan(reading.temperature) \/ is_nan(reading.humidity)
    \/ FloatLt(reading.humidity, Float(0)) \/ FloatGt(reading.humidity, Float(100))

\* The call that has just been made was add_reading with an invalid sample.
OfferedInvalid ==
    /\ Len(offered') = Len(offered) + 1
    /\ Invalid(offered'[Len(offered')])

\* C18: add_reading with a sample whose humidity is below 0 or above 100, or
\* whose temperature or humidity is NaN, leaves the length and the contents
\* of the buffer unchanged, whatever the buffer holds.
C18_RejectionLaw == [][OfferedInvalid => environment' = environment]_vars

\* C18 witness: a valid sample was offered and then three invalid ones, one
\* with its humidity below 0, one with it above 100 and one with a NaN
\* temperature, and the buffer holds the valid one alone.
C18_Witness ==
    /\ Len(offered) = 4
    /\ ~Invalid(offered[1])
    /\ offered[2] = Reading(Float(20), Float(-1))
    /\ offered[3] = Reading(Float(20), Float(101))
    /\ offered[4] = Reading(NaN, Float(50))
    /\ environment = <<offered[1]>>

\* The valid samples offered so far, in arrival order.
ValidOffered == SelectSeq(offered, LAMBDA r : ~Invalid(r))

Min(a, b) == IF a <= b THEN a ELSE b

\* The last n elements of a sequence.
LastN(xs, n) == SubSeq(xs, Len(xs) - n + 1, Len(xs))

\* C19: after any sequence of add_reading calls the buffer holds at most
\* capacity samples, and they are the most recent min(k, capacity) valid
\* samples in arrival order, k being the number of valid samples added.
C19_EvictionLaw ==
    /\ Len(environment) <= capacity
    /\ environment = LastN(ValidOffered, Min(Len(ValidOffered), capacity))

\* C19 witness: capacity + 1 valid samples went into a ring of capacity 2,
\* which holds the last two of them, the first one evicted.
C19_Witness ==
    /\ capacity = 2 /\ Len(ValidOffered) = capacity + 1
    /\ ValidOffered[1] # ValidOffered[2] /\ ValidOffered[2] # ValidOffered[3]
    /\ environment = <<ValidOffered[2], ValidOffered[3]>>

\* The values of the two fields in the buffer.
Temperatures == [i \in 1 .. Len(environment) |-> environment[i].temperature]
Humidities == [i \in 1 .. Len(environment) |-> environment[i].humidity]

\* t * 9/5 + 32 in f32
Fahrenheit(t) == FloatAdd(FloatMul(t, FloatDiv(Float(9), Float(5))), Float(32))

\* The same valid sample was added n times to an empty aggregator, and the
\* estimates were then read.
AddedThenRead(reading, n) ==
    /\ ~Invalid(reading)
    /\ offered = [i \in 1 .. n |-> reading]
    /\ estimate # NoEstimate

\* The statistics and the estimates are those of the one sample.
RoundTrip(reading) ==
    /\ mean_of(Temperatures) = reading.temperature
    /\ mean_of(Humidities) = reading.humidity
    /\ std_dev_of(Temperatures) = Float(0)
    /\ std_dev_of(Humidities) = Float(0)
    /\ good_samples(Temperatures) = Temperatures
    /\ good_samples(Humidities) = Humidities
    /\ estimate.humidity = reading.humidity
    /\ estimate.temp = Fahrenheit(reading.temperature)

\* C20 as stated: adding the same valid sample N times (2 <= N <= capacity)
\* into an empty aggregator yields mean equal to the sample's value and
\* standard deviation 0 for each field, no reading is trimmed, humidity()
\* returns h and temp() returns the Fahrenheit conversion of t.
C20_RoundTripAsStated ==
    \A reading \in AggReadings : \A n \in 2 .. capacity :
        AddedThenRead(reading, n) => RoundTrip(reading)

\* v is finite and k * v is an f32 for every k up to n: the sums of up to n
\* copies of v are formed without rounding.
ExactSums(v, n) ==
    ~is_inf(v) /\ \A k \in 1 .. n : Abs(Canon(k * v[1], v[2])[1]) < 2 ^ 24

\* C20: adding the same valid sample N times (2 <= N <= capacity) into an
\* empty aggregator, its fields being finite and the sums of up to N copies
\* of each exact in f32 (as they are for N = 2, and for whole-number
\* readings), yields mean equal to the sample's value and standard deviation
\* 0 for each field, no reading is trimmed, humidity() returns h and temp()
\* returns the Fahrenheit conversion of t.
C20_RoundTripOfExactSums ==
    \A reading \in AggReadings : \A n \in 2 .. capacity :
        (/\ AddedThenRead(reading, n)
         /\ ExactSums(reading.temperature, n)
         /\ ExactSums(reading.humidity, n)) => RoundTrip(reading)

\* C20 witness: 20 C at 0 % added three times to a ring of capacity 4 reads
\* back as 68 F at 0 %.
C20_Witness ==
    /\ capacity = 4
    /\ AddedThenRead(Reading(Float(20), Float(0)), 3)
    /\ estimate = [temp |-> Float(68), humidity |-> Float(0)]

\* The values of xs that lie within one sample standard deviation of the
\* mean of xs, in their order.
Retained(xs) ==
    LET lo == FloatSub(mean_of(xs), std_dev_of(xs))
        hi == FloatAdd(mean_of(xs), std_dev_of(xs))
    IN  SelectSeq(xs, LAMBDA r : FloatLe(lo, r) /\ FloatLe(r, hi))

\* The mean of the values of a field that are retained.
RetainedMean(xs) == FloatDiv(FloatSum(Retained(xs)), Float(Len(Retained(xs))))

\* C21: for every buffer content with n > 1 readings, at least one reading
\* lies within one sample standard deviation of the mean of each field, so
\* the retained subset used by temp() and humidity() is not empty, and the
\* result is the mean of exactly the retained readings (for temp(), its
\* Fahrenheit conversion).
C21_FilterNeverEmpties ==
    (estimate # NoEstimate /\ Len(environment) > 1) =>
        /\ Retained(Temperatures) # <<>>
        /\ Retained(Humidities) # <<>>
        /\ estimate.temp = Fahrenheit(RetainedMean(Temperatures))
        /\ estimate.humidity = RetainedMean(Humidities)

\* The step sends an Environment message.
SendsEnvironment ==
    /\ Len(bus') = Len(bus) + 1
    /\ bus'[Len(bus')].type = "Environment"

\* An estimate that is a number.
Defined(value) == ~is_nan(value)

\* C22: every Environment message main broadcasts is computed while the
\* aggregator holds at least 2 valid samples, and neither of its values is
\* undefined, whatever sensor reads failed or were rejected before it.
C22_MinimumFillGuard ==
    [][SendsEnvironment =>
           /\ Len(environment) >= 2
           /\ Defined(bus'[Len(bus')].env[1])
           /\ Defined(bus'[Len(bus')].env[2])]_vars

\* main has just made one sensor read and sat through the wait after it.
ReadStep == main.pc \in {"init_read", "read"} /\ main' # main

\* Where main is after the read and the wait of a sample, whatever the read
\* gave: at the stop check of the warm-up, at the next sample of the cycle,
\* or past the last sample at the status datagram.
NextSample(m) ==
    IF m.pc = "init_read" THEN [pc |-> "init_check", i |-> m.i]
    ELSE IF m.i + 1 = SENSOR_READINGS THEN [pc |-> "status", i |-> 0]
    ELSE [pc |-> "read", i |-> m.i + 1]

\* C23: when a sensor read fails, main adds no reading (the buffer is as it
\* was), does not terminate and goes on to the next sample wait, sending
\* nothing: it stands where a successful read would have left it.
C23_SensorErrorsNonFatal ==
    [][(ReadStep /\ main'.read = "err") =>
           /\ environment' = environment
           /\ bus' = bus
           /\ main'.pc = NextSample(main).pc
           /\ main'.i = NextSample(main).i
           /\ main'.cycle = main.cycle]_vars

\* C23 witness: the first read of a steady-state cycle has failed with two
\* or more samples in the buffer, and main is at the cycle's second read.
C23_Witness ==
    /\ main.pc = "read" /\ main.i = 1 /\ main.read = "err"
    /\ Len(environment) >= 2

\* main is in the sleep of the last cycle that is followed.
Capped == main.pc = "sleep" /\ main.cycle = MaxCycles

\* Exit is on the bus, main has left its loop and returned, and both tasks
\* have finished.
ShutDown ==
    /\ Len(Sent({"Exit"})) >= 1
    /\ main.pc \in {"done", "exited"}
    /\ Terminated(light) /\ Terminated(fan)

\* C24: once the interrupt is delivered, in the warm-up or in a cycle, main
\* eventually broadcasts Exit, its loop terminates, and both actuator tasks
\* eventually reach Terminated, under fair scheduling.
C24_ShutdownLiveness == (stop = "sent" /\ ~Capped) ~> ShutDown

\* Exit has been broadcast by main.
ExitBroadcast == Len(Sent({"Exit"})) >= 1

\* C25: Exit is the last message on the bus: once the Supervisor has
\* broadcast Exit, whether it took the interrupt in the warm-up or in the
\* steady loop, no step puts a further Setup, Environment, Time or Exit on
\* the bus and no step takes a sensor reading.
C25_ExitIsLast == [][ExitBroadcast => bus' = bus /\ ~ReadStep]_vars

\* A decision function has returned a boolean.
Boolean(outcome) == outcome \in {"true", "false"}

\* C26: decision evaluation is total on accepted configs: for every Config
\* that setup has accepted, every query time and every environment, light_on
\* and fan_on return a boolean; neither faults on the missing Off event of
\* a schedule's last pair.
C26_DecisionTotalOnAccepted ==
    (loadState = "ready" /\ Asked) => Boolean(result.light_on) /\ Boolean(result.fan_on)

\* The thread has taken the message at position k of the channel's history,
\* or has returned before it could.
Observed(thread, k) ==
    \/ \E j \in 1 .. Len(thread.got) : thread.got[j] = k
    \/ HasReturned(thread)

\* Position k holds a Time or an Environment sent by the main loop.
SentByMain(k) == k <= Len(bus) /\ bus[k].type \in {"Time", "Environment"}

\* The thread has taken the Exit of the handler.
ObservedExit(thread) ==
    \E j \in 1 .. Len(thread.got) : bus[thread.got[j]].type = "Exit"

\* All three have stopped on the Exit and main's joins have returned.
AllStopped ==
    /\ ObservedExit(main)
    /\ ObservedExit(light) \/ light.pc = "returned_err"
    /\ ObservedExit(fan) \/ fan.pc = "returned_err"
    /\ main.pc = "done"

\* main has sent the last Time the bounded run follows it to.
ThreadsCapped == main.pc = "send_time" /\ main.cycle = MaxCycles

\* The most messages the channel carries in a bounded run: an Environment
\* and a Time per cycle, the Environment of the last cycle, and the Exit.
MaxSent == 2 * MaxCycles + 2

\* C27: in the thread-based controller every message is delivered to every
\* actuator thread: each Time and Environment the main loop sends is
\* received by the light and by the fan thread (unless the thread has
\* returned), and the single Exit of the interrupt handler is observed by
\* the light thread, the fan thread and the main loop, so that after an
\* interrupt all three stop and main's joins return.
C27_EveryThreadReceives ==
    /\ \A k \in 1 .. MaxSent :
           SentByMain(k) ~> (Observed(light, k) /\ Observed(fan, k)) \/ ThreadsCapped
    /\ (stop = "sent") ~> (AllStopped \/ ThreadsCapped)

====
